---- MODULE Spec2Model ----
(***************************************************************************)
(* Model of esmerald/applications.py: construction of an Esmerald          *)
(* application (configuration merge, router creation, middleware and       *)
(* exception-handler stack building) and the post-construction operations  *)
(* add_route, add_router and the stack builders.                           *)
(*                                                                         *)
(* Value encoding.  Scalar Python values are strings ("None", "False",     *)
(* "", "0" are the falsy ones).  Optional lists and dicts are records      *)
(* [none, items]: None is NoneC, a list is ListC(<<...>>), a dict is        *)
(* ListC of <<key, value>> pairs in insertion order (Python dicts keep      *)
(* insertion order, and build_middleware_stack iterates in that order).    *)
(***************************************************************************)
EXTENDS Naturals, Sequences, FiniteSets

VARIABLES pc, err, op, inp, self, rebuilds, events, request

vars == <<pc, err, op, inp, self, rebuilds, events, request>>

----------------------------------------------------------------------------
(* Bounds of the model. *)

\* most routes the application's router holds
MaxRoutes == 3
\* most explicit calls of the stack builders after construction
MaxRebuilds == 2

----------------------------------------------------------------------------
(* Python values. *)

None == "None"

\* bool(x) of a scalar
TruthyS(s) == s \notin {"None", "False", "", "0"}

\* a variant of "a or b" that keeps every explicit value but None
OrS_unless_none(a, b) == IF a # None THEN a ELSE b

\* a or b, on scalars
OrS(a, b) == IF TruthyS(a) THEN a ELSE b

NoneC == [none |-> TRUE, items |-> <<>>]

\* static_files_config: None, one configuration object, or a list of them
NoConfig == [none |-> TRUE, is_list |-> FALSE, items |-> <<>>]

OneConfig(config) == [none |-> FALSE, is_list |-> FALSE, items |-> <<config>>]

ConfigList(configs) == [none |-> FALSE, is_list |-> TRUE, items |-> configs]

ListC(s) == [none |-> FALSE, items |-> s]

\* bool(x) of an optional list or dict
TruthyC(c) == ~c.none /\ Len(c.items) > 0

\* a or b, on optional lists and dicts
OrC(a, b) == IF TruthyC(a) THEN a ELSE b

\* the elements of a sequence
Range(s) == {s[i] : i \in 1..Len(s)}

----------------------------------------------------------------------------
(* Python dicts as sequences of <<key, value>> pairs in insertion order. *)

DictKeys(d) == {d[i][1] : i \in 1..Len(d)}

DictHas(d, k) == k \in DictKeys(d)

\* d.get(k), None when absent
DictGet(d, k) ==
    IF DictHas(d, k)
    THEN LET i == CHOOSE j \in 1..Len(d) : d[j][1] = k IN d[i][2]
    ELSE None

\* d[k] = v: an existing key keeps its position, a new key goes last
DictSet(d, k, v) ==
    IF DictHas(d, k)
    THEN [i \in 1..Len(d) |-> IF d[i][1] = k THEN <<k, v>> ELSE d[i]]
    ELSE Append(d, <<k, v>>)

\* d.setdefault(k, v)
DictSetDefault(d, k, v) == IF DictHas(d, k) THEN d ELSE Append(d, <<k, v>>)

\* d.update(e)
RECURSIVE DictUpdate(_, _)
DictUpdate(d, e) ==
    IF e = <<>> THEN d
    ELSE DictUpdate(DictSet(d, e[1][1], e[1][2]), Tail(e))

----------------------------------------------------------------------------
(* Middleware entries.  An entry of a middleware list is a middleware class *)
(* passed as it is, or a StarletteMiddleware(cls, **options) that carries   *)
(* the names of its options.                                                *)

\* a middleware class, not wrapped
MiddlewareClass(cls) == [cls |-> cls, options |-> {}, wrapped |-> FALSE]

\* StarletteMiddleware(cls, **options)
StarletteMiddleware(cls, options) == [cls |-> cls, options |-> options, wrapped |-> TRUE]

\* isinstance(middleware, StarletteMiddleware)
IsStarletteMiddleware(middleware) == middleware.wrapped

\* the classes of the entries of a list
Classes(entries) == [i \in 1..Len(entries) |-> entries[i].cls]

\* config.dict() of a CORSConfig or SessionConfig: the names of its fields.
\* "cors" is CORSConfig(allow_origins=..., allow_methods=...), "cors_default"
\* is CORSConfig(allow_origins=...), every other configuration it is called
\* on is a SessionConfig(secret_key=...)
config_dict(config) ==
    IF config = "cors" THEN {"allow_origins", "allow_methods"}
    ELSE IF config = "cors_default" THEN {"allow_origins"}
    ELSE {"secret_key"}

----------------------------------------------------------------------------
(* Names the code refers to. *)

\* the keys build_middleware_stack treats as catch-all: (500, Exception)
CatchAllKeys == {"500", "Exception"}

\* isinstance(app, (Esmerald, ChildEsmerald))
IsNestedApp(app) == app.type \in {"Esmerald", "ChildEsmerald"}

----------------------------------------------------------------------------
(* Route nodes.  Every node is a record of one shape; a Gateway has no     *)
(* app and no child routes, an Include has no handler.                     *)

NoHandler == [middleware |-> <<>>, exception_handlers |-> <<>>, websocket |-> FALSE]

NoApp == [type |-> "None", config |-> None, middleware |-> <<>>, exception_handlers |-> <<>>]

\* gateways.Gateway(handler=..., middleware=..., exception_handlers=...)
Gateway(mw, eh, hmw, heh) ==
    [kind |-> "Gateway", middleware |-> mw, exception_handlers |-> eh,
     handler |-> [middleware |-> hmw, exception_handlers |-> heh, websocket |-> FALSE],
     app |-> NoApp, routes |-> <<>>, is_from_router |-> FALSE]

\* gateways.WebSocketGateway(handler=..., ...)
WebSocketGateway(mw, eh, hmw, heh) ==
    [kind |-> "WebSocketGateway", middleware |-> mw, exception_handlers |-> eh,
     handler |-> [middleware |-> hmw, exception_handlers |-> heh, websocket |-> TRUE],
     app |-> NoApp, routes |-> <<>>, is_from_router |-> FALSE]

\* Include(routes=..., middleware=..., exception_handlers=...) or Include(app=...)
Include(app, mw, eh, routes) ==
    [kind |-> "Include", middleware |-> mw, exception_handlers |-> eh,
     handler |-> NoHandler, app |-> app, routes |-> routes, is_from_router |-> FALSE]

IsGateway(route) == route.kind \in {"Gateway", "WebSocketGateway"}

IsInclude(route) == route.kind = "Include"

----------------------------------------------------------------------------
(* The route aggregation passes. *)

\* Esmerald.build_routes_middleware(route, middlewares)
\* variant: a group that is not a nested application adds its own middleware
build_routes_middleware_with_groups(route, middlewares) ==
    IF IsInclude(route) /\ route.app.type # "None" /\ IsNestedApp(route.app)
    THEN middlewares
    ELSE IF IsInclude(route)
         THEN middlewares \o route.middleware
         ELSE IF IsGateway(route)
              THEN middlewares \o route.middleware
                   \o (IF route.handler.middleware # <<>> THEN route.handler.middleware ELSE <<>>)
              ELSE middlewares

build_routes_middleware(route, middlewares) ==
    IF IsInclude(route) /\ route.app.type # "None" /\ IsNestedApp(route.app)
    THEN middlewares
    ELSE IF IsGateway(route)
         THEN middlewares \o route.middleware
              \o (IF route.handler.middleware # <<>> THEN route.handler.middleware ELSE <<>>)
         ELSE middlewares

RECURSIVE build_routes_exception_handlers(_, _)
RECURSIVE routes_exception_handlers_loop(_, _)

\* a variant that walks into the routes of a nested application as well
build_routes_exception_handlers_into_nested(route, exception_handlers) ==
    IF IsInclude(route)
    THEN routes_exception_handlers_loop(
             route.routes,
             DictUpdate(DictUpdate(exception_handlers, route.exception_handlers),
                        route.app.exception_handlers))
    ELSE IF IsGateway(route)
         THEN DictUpdate(DictUpdate(exception_handlers, route.exception_handlers),
                         route.handler.exception_handlers)
         ELSE exception_handlers

\* Esmerald.build_routes_exception_handlers(route, exception_handlers)
build_routes_exception_handlers(route, exception_handlers) ==
    IF IsInclude(route)
    THEN LET own == DictUpdate(exception_handlers, route.exception_handlers) IN
         IF route.app.type # "None" /\ IsNestedApp(route.app)
         THEN own
         ELSE routes_exception_handlers_loop(route.routes, own)
    ELSE IF IsGateway(route)
         THEN LET gw == DictUpdate(exception_handlers, route.exception_handlers) IN
              IF route.handler.exception_handlers # <<>>
              THEN DictUpdate(gw, route.handler.exception_handlers)
              ELSE gw
         ELSE exception_handlers

\* the loop "for _route in route.routes" of build_routes_exception_handlers
routes_exception_handlers_loop(routes, exception_handlers) ==
    IF routes = <<>> THEN exception_handlers
    ELSE routes_exception_handlers_loop(
             Tail(routes), build_routes_exception_handlers(routes[1], exception_handlers))

\* the loop "for route in self.routes" of build_user_middleware_stack
RECURSIVE routes_middleware_loop(_)
routes_middleware_loop(routes) ==
    IF routes = <<>> THEN <<>>
    ELSE build_routes_middleware(routes[1], <<>>) \o routes_middleware_loop(Tail(routes))

\* the built-in middleware build_user_middleware_stack appends first
builtin_middleware(app) ==
    (IF TruthyC(app.allowed_hosts)
     THEN <<StarletteMiddleware("TrustedHostMiddleware", {"allowed_hosts"})>> ELSE <<>>)
    \o (IF TruthyS(app.cors_config)
        THEN <<StarletteMiddleware("CORSMiddleware", config_dict(app.cors_config))>>
        ELSE <<>>)
    \o (IF TruthyS(app.csrf_config)
        THEN <<StarletteMiddleware("CSRFMiddleware", {"config"})>> ELSE <<>>)
    \o (IF TruthyS(app.session_config)
        THEN <<StarletteMiddleware("SessionMiddleware", config_dict(app.session_config))>>
        ELSE <<>>)

\* lines 556-560: an entry that is a StarletteMiddleware is kept as it is, any
\* other is wrapped without options
as_starlette_middleware(middleware) ==
    IF IsStarletteMiddleware(middleware) THEN middleware
    ELSE StarletteMiddleware(middleware.cls, {})

\* the loop "for middleware in self.middleware or []"
wrapped_middleware(middleware) ==
    [i \in 1..Len(middleware) |-> as_starlette_middleware(middleware[i])]

\* Router.middleware of the router __init__ creates (no middleware is passed to it)
router_middleware == <<>>

\* a variant that puts the route-contributed middleware before the declared
build_user_middleware_stack_routes_first(app) ==
    LET handlers_middleware == router_middleware \o routes_middleware_loop(app.routes)
        middleware == handlers_middleware \o app.middleware.items
    IN [middleware |-> ListC(middleware),
        user_middleware |-> builtin_middleware(app) \o wrapped_middleware(middleware)]

\* Esmerald.build_user_middleware_stack: the list it returns and the value
\* it leaves in self.middleware ("self.middleware += handlers_middleware")
build_user_middleware_stack(app) ==
    LET handlers_middleware == router_middleware \o routes_middleware_loop(app.routes)
        middleware == app.middleware.items \o handlers_middleware
    IN [middleware |-> ListC(middleware),
        user_middleware |-> builtin_middleware(app) \o wrapped_middleware(middleware)]

\* one layer of the chain, cls(app=app, **options)
Layer(cls, handlers, error_handler, debug, opts) ==
    [cls |-> cls, handlers |-> handlers, error_handler |-> error_handler,
     debug |-> debug, opts |-> opts]

\* the layer of a user middleware entry: its class built with its options
UserLayer(middleware) == Layer(middleware.cls, <<>>, None, None, middleware.options)

RouterLayer == Layer("Router", <<>>, None, None, {})

\* the loop over self.exception_handlers.items() of build_middleware_stack:
\* [error_handler, exception_handlers]
RECURSIVE partition_exception_handlers(_, _, _)
partition_exception_handlers(items, error_handler, exception_handlers) ==
    IF items = <<>>
    THEN [error_handler |-> error_handler, exception_handlers |-> exception_handlers]
    ELSE IF items[1][1] \in CatchAllKeys
         THEN partition_exception_handlers(Tail(items), items[1][2], exception_handlers)
         ELSE partition_exception_handlers(
                  Tail(items), error_handler,
                  DictSet(exception_handlers, items[1][1], items[1][2]))

\* the loop "for route in self.routes" of build_middleware_stack
RECURSIVE merge_routes_exception_handlers(_, _)
merge_routes_exception_handlers(routes, exception_handlers) ==
    IF routes = <<>> THEN exception_handlers
    ELSE merge_routes_exception_handlers(
             Tail(routes),
             DictUpdate(exception_handlers,
                        build_routes_exception_handlers(routes[1], <<>>)))

\* a variant that places the inner boundary before the user middleware
middleware_list_inner_first(app) ==
    LET part == partition_exception_handlers(app.exception_handlers.items, None, <<>>)
        exception_handlers ==
            merge_routes_exception_handlers(app.routes, part.exception_handlers)
    IN <<Layer("EsmeraldAPIExceptionMiddleware", exception_handlers, part.error_handler,
               app._debug, {"exception_handlers", "error_handler", "debug"}),
         Layer("ExceptionMiddleware", exception_handlers, None, app._debug,
               {"handlers", "debug"})>>
       \o [i \in 1..Len(app.user_middleware) |-> UserLayer(app.user_middleware[i])]
       \o <<Layer("AsyncExitStackMiddleware", <<>>, None, None, {"config"})>>

\* a variant that places the resource-scope layer outside the inner boundary
middleware_list_exit_stack_outside(app) ==
    LET part == partition_exception_handlers(app.exception_handlers.items, None, <<>>)
        exception_handlers ==
            merge_routes_exception_handlers(app.routes, part.exception_handlers)
    IN <<Layer("EsmeraldAPIExceptionMiddleware", exception_handlers, part.error_handler,
               app._debug, {"exception_handlers", "error_handler", "debug"})>>
       \o [i \in 1..Len(app.user_middleware) |-> UserLayer(app.user_middleware[i])]
       \o <<Layer("AsyncExitStackMiddleware", <<>>, None, None, {"config"}),
            Layer("ExceptionMiddleware", exception_handlers, None, app._debug,
                  {"handlers", "debug"})>>

\* a variant that hands the designated error handler to the inner boundary
middleware_list_error_handler_inside(app) ==
    LET part == partition_exception_handlers(app.exception_handlers.items, None, <<>>)
        exception_handlers ==
            merge_routes_exception_handlers(app.routes, part.exception_handlers)
    IN <<Layer("EsmeraldAPIExceptionMiddleware", exception_handlers, None,
               app._debug, {"exception_handlers", "debug"})>>
       \o [i \in 1..Len(app.user_middleware) |-> UserLayer(app.user_middleware[i])]
       \o <<Layer("ExceptionMiddleware", exception_handlers, part.error_handler, app._debug,
                  {"handlers", "error_handler", "debug"}),
            Layer("AsyncExitStackMiddleware", <<>>, None, None, {"config"})>>

\* the list "middleware" of build_middleware_stack, outermost first
middleware_list(app) ==
    LET part == partition_exception_handlers(app.exception_handlers.items, None, <<>>)
        exception_handlers ==
            merge_routes_exception_handlers(app.routes, part.exception_handlers)
    IN <<Layer("EsmeraldAPIExceptionMiddleware", exception_handlers, part.error_handler,
               app._debug, {"exception_handlers", "error_handler", "debug"})>>
       \o [i \in 1..Len(app.user_middleware) |-> UserLayer(app.user_middleware[i])]
       \o <<Layer("ExceptionMiddleware", exception_handlers, None, app._debug,
                  {"handlers", "debug"}),
            Layer("AsyncExitStackMiddleware", <<>>, None, None, {"config"})>>

\* "for cls, options in reversed(middleware): app = cls(app=app, **options)":
\* the chain as the sequence of layers from the outermost to the router
RECURSIVE wrap(_, _)
wrap(middleware, app) ==
    IF middleware = <<>> THEN app
    ELSE wrap(SubSeq(middleware, 1, Len(middleware) - 1),
              <<middleware[Len(middleware)]>> \o app)

\* Esmerald.build_middleware_stack
build_middleware_stack(app) == wrap(middleware_list(app), <<RouterLayer>>)

----------------------------------------------------------------------------
(* Construction. *)

\* isinstance(settings_config, EsmeraldAPISettings)
isinstance_settings(value) == value = "settings_instance"

\* helpers.is_class_and_subclass(value, EsmeraldAPISettings): value is a class
\* (or a generic alias of one) and a subclass of the settings type
is_class_and_subclass(value) ==
    IF value \notin {"settings_subclass", "other_class"}
    THEN FALSE
    ELSE value = "settings_subclass"

\* lines 175-181: the condition under which __init__ rejects settings_config
settings_config_rejected(value) ==
    TruthyS(value) /\ (~isinstance_settings(value) \/ ~is_class_and_subclass(value))

\* lines 173-185: the value __init__ leaves in self.settings_config; the
\* first branch of the chain raises and leaves the None of line 173
settings_config_stored(value) ==
    IF ~TruthyS(value) THEN None
    ELSE IF ~isinstance_settings(value) \/ ~is_class_and_subclass(value) THEN None
    ELSE IF isinstance_settings(value) THEN value
    ELSE IF is_class_and_subclass(value) THEN "settings_instance"
    ELSE None

\* line 187: the assertion on lifespan and the startup / shutdown hooks
lifespan_assertion(args) ==
    args.lifespan = None \/ (args.on_startup.none /\ args.on_shutdown.none)

\* line 191: the check of allow_origins against cors_config
origins_and_cors(args) == TruthyC(args.allow_origins) /\ TruthyS(args.cors_config)

\* the exception __init__ raises before it merges the configuration, or
\* "none"; the assert statement of line 187 runs only when the interpreter
\* keeps assertions (it is compiled away under python -O)
init_error(args, assertions) ==
    IF settings_config_rejected(args.settings_config) THEN "ImproperlyConfigured"
    ELSE IF assertions /\ ~lifespan_assertion(args) THEN "AssertionError"
    ELSE IF origins_and_cors(args) THEN "ImproperlyConfigured"
    ELSE "none"

\* get_app_settings(app): the object's own settings when it has one
get_app_settings(settings_config, custom_settings, esmerald_settings) ==
    IF TruthyS(settings_config) THEN custom_settings ELSE esmerald_settings

\* lines 195-239: AppConfig(...), one "explicit or default" per field
app_config(args, app_settings) ==
    [debug |-> OrS(args.debug, app_settings.debug),
     title |-> OrS(args.title, app_settings.title),
     allowed_hosts |-> OrC(args.allowed_hosts, app_settings.allowed_hosts),
     allow_origins |-> OrC(args.allow_origins, app_settings.allow_origins),
     permissions |-> OrC(OrC(args.permissions, app_settings.permissions), ListC(<<>>)),
     csrf_config |-> OrS(args.csrf_config, app_settings.csrf_config),
     cors_config |-> OrS(args.cors_config, app_settings.cors_config),
     openapi_config |-> OrS(args.openapi_config, app_settings.openapi_config),
     static_files_config |->
         OrC(args.static_files_config, app_settings.static_files_config),
     session_config |-> OrS(args.session_config, app_settings.session_config),
     enable_scheduler |-> OrS(args.enable_scheduler, app_settings.enable_scheduler),
     middleware |-> OrC(OrC(args.middleware, app_settings.middleware), ListC(<<>>)),
     exception_handlers |->
         OrC(args.exception_handlers, app_settings.exception_handlers),
     on_startup |-> OrC(args.on_startup, app_settings.on_startup),
     on_shutdown |-> OrC(args.on_shutdown, app_settings.on_shutdown),
     lifespan |-> OrS(args.lifespan, app_settings.lifespan),
     enable_openapi |-> OrS(args.enable_openapi, app_settings.enable_openapi)]

\* the application object before __init__ has assigned anything but
\* self.settings_config = None
Blank ==
    [settings_config |-> None, _debug |-> None, title |-> None,
     allowed_hosts |-> NoneC, allow_origins |-> NoneC, permissions |-> NoneC,
     csrf_config |-> None, cors_config |-> None, openapi_config |-> None,
     static_files_config |-> NoConfig, session_config |-> None,
     enable_scheduler |-> None, middleware |-> NoneC, exception_handlers |-> NoneC,
     on_startup |-> NoneC, on_shutdown |-> NoneC, lifespan |-> None,
     enable_openapi |-> None, openapi_schema |-> None, scheduler |-> None,
     router_created |-> FALSE, routes |-> <<>>,
     user_middleware |-> <<>>, middleware_stack |-> <<>>]

\* lines 241-299: the fields assigned from the AppConfig, and the router
assign_config(settings_config, config, routes) ==
    [Blank EXCEPT
        !.settings_config = settings_config,
        !._debug = config.debug,
        !.title = config.title,
        !.allowed_hosts = config.allowed_hosts,
        !.allow_origins = config.allow_origins,
        !.permissions = config.permissions,
        !.csrf_config = config.csrf_config,
        !.cors_config = config.cors_config,
        !.openapi_config = config.openapi_config,
        !.static_files_config = config.static_files_config,
        !.session_config = config.session_config,
        !.enable_scheduler = config.enable_scheduler,
        !.middleware = config.middleware,
        !.exception_handlers =
            IF config.exception_handlers.none THEN ListC(<<>>)
            ELSE ListC(config.exception_handlers.items),
        !.on_startup = config.on_startup,
        !.on_shutdown = config.on_shutdown,
        !.lifespan = config.lifespan,
        !.enable_openapi = config.enable_openapi,
        !.router_created = TRUE,
        !.routes = routes]

\* Esmerald.get_default_exception_handlers
get_default_exception_handlers(app) ==
    [app EXCEPT !.exception_handlers = ListC(
        DictSetDefault(
            DictSetDefault(@.items, "ImproperlyConfigured",
                           "improperly_configured_exception_handler"),
            "ValidationErrorException", "validation_error_exception_handler"))]

\* "self.user_middleware = self.build_user_middleware_stack()"
set_user_middleware(app) ==
    LET built == build_user_middleware_stack(app) IN
    [app EXCEPT !.middleware = built.middleware,
                !.user_middleware = built.user_middleware]

\* "self.middleware_stack = self.build_middleware_stack()"
set_middleware_stack(app) ==
    [app EXCEPT !.middleware_stack = build_middleware_stack(app)]

\* the Include __init__ appends for one static files configuration
StaticInclude(config) ==
    Include([type |-> "StaticFiles", config |-> config, middleware |-> <<>>,
             exception_handlers |-> <<>>],
            <<>>, <<>>, <<>>)

\* lines 306-314: one Include per configuration, the value being a list of
\* configurations or a single one
add_static_files(app) ==
    IF TruthyC(app.static_files_config)
    THEN LET configs == IF app.static_files_config.is_list
                        THEN app.static_files_config.items
                        ELSE <<app.static_files_config.items[1]>>
         IN [app EXCEPT !.routes = @ \o [i \in 1..Len(configs) |-> StaticInclude(configs[i])]]
    ELSE app

\* lines 316-323
add_scheduler(app) ==
    IF TruthyS(app.enable_scheduler)
    THEN [app EXCEPT !.scheduler = "EsmeraldScheduler"]
    ELSE app

\* the gateway activate_openapi creates for the OpenAPI view
OpenAPIGateway == Gateway(<<>>, <<>>, <<>>, <<>>)

\* whether activate_openapi adds its gateway
openapi_active(app) == TruthyS(app.openapi_config) /\ TruthyS(app.enable_openapi)

\* Esmerald.activate_openapi
activate_openapi(app) ==
    IF openapi_active(app)
    THEN [app EXCEPT !.openapi_schema = "OpenAPI",
                     !.routes = Append(@, OpenAPIGateway)]
    ELSE app

\* Esmerald.__init__ when it raises nothing: the constructed application
constructed(args, custom_settings, esmerald_settings) ==
    LET settings_config == settings_config_stored(args.settings_config)
        app_settings == get_app_settings(settings_config, custom_settings, esmerald_settings)
        config == app_config(args, app_settings)
        assigned == assign_config(settings_config, config, args.routes)
        stacked == set_middleware_stack(
                       set_user_middleware(get_default_exception_handlers(assigned)))
    IN activate_openapi(add_scheduler(add_static_files(stacked)))

----------------------------------------------------------------------------
(* Operations on a constructed application. *)

\* Router.add_route / Router.add_websocket_route: the new gateway goes last
router_add_route(routes, gateway) == Append(routes, gateway)

\* Esmerald.add_route; other_router is "router is given and is not self.router"
add_route(app, gateway, other_router) ==
    activate_openapi(
        IF other_router THEN app
        ELSE [app EXCEPT !.routes = router_add_route(@, gateway)])

\* Esmerald.add_websocket_route
add_websocket_route(app, gateway, other_router) ==
    IF other_router THEN app
    ELSE [app EXCEPT !.routes = router_add_route(@, gateway)]

\* lines 405-419: the copy add_router appends for an Include
include_copy(route) ==
    Include(route.app, route.middleware, route.exception_handlers, route.routes)

\* lines 421-445: the copy add_router appends for a gateway
gateway_copy(route) ==
    [kind |-> IF ~route.handler.websocket THEN "Gateway" ELSE "WebSocketGateway",
     middleware |-> route.middleware, exception_handlers |-> route.exception_handlers,
     handler |-> route.handler, app |-> NoApp, routes |-> <<>>,
     is_from_router |-> TRUE]

\* lines 427-430: "if self.on_startup: self.on_startup.extend(router.on_startup)"
extend_hooks(own, added) == IF TruthyC(own) THEN ListC(own.items \o added) ELSE own

\* the loop "for route in router.routes" of add_router
RECURSIVE add_router_loop(_, _, _)
add_router_loop(app, router, routes) ==
    IF routes = <<>> THEN app
    ELSE LET route == routes[1] IN
         IF IsInclude(route)
         THEN add_router_loop([app EXCEPT !.routes = Append(@, include_copy(route))],
                              router, Tail(routes))
         ELSE add_router_loop(
                  [app EXCEPT !.on_startup = extend_hooks(@, router.on_startup),
                              !.on_shutdown = extend_hooks(@, router.on_shutdown),
                              !.routes = Append(@, gateway_copy(route))],
                  router, Tail(routes))

\* Esmerald.add_router
add_router(app, router) == activate_openapi(add_router_loop(app, router, router.routes))

\* a caller running both stack builders again, as __init__ runs them
rebuild(app) == set_middleware_stack(set_user_middleware(app))

----------------------------------------------------------------------------
(* The inputs the model explores. *)

GwPlain == Gateway(<<>>, <<>>, <<>>, <<>>)

\* a gateway with a middleware class, its handler with a wrapped one
GwM1 ==
    Gateway(<<MiddlewareClass("M1")>>, <<>>, <<StarletteMiddleware("M2", {"x"})>>, <<>>)

GwK1A == Gateway(<<>>, <<<<"K1", "hA">>>>, <<>>, <<>>)

GwK1B == Gateway(<<MiddlewareClass("M2")>>, <<<<"K1", "hB">>>>, <<>>, <<<<"K2", "hC">>>>)

GwExc == Gateway(<<>>, <<<<"Exception", "hB">>>>, <<>>, <<>>)

WsM1 == WebSocketGateway(<<MiddlewareClass("M1")>>, <<<<"K2", "hA">>>>, <<>>, <<>>)

\* a group of routes with its own middleware and handlers
IncGroup == Include(NoApp, <<MiddlewareClass("M3")>>, <<<<"K1", "hC">>>>, <<GwK1B>>)

\* a group inside a group
IncDeep == Include(NoApp, <<>>, <<<<"K2", "hB">>>>, <<IncGroup, GwK1A>>)

\* what a nested application declares inside itself
NestedMiddleware == {"Mn"}

NestedHandlers == {"Hn"}

NestedApp(type) ==
    [type |-> type, config |-> None, middleware |-> <<MiddlewareClass("Mn")>>,
     exception_handlers |-> <<<<"K1", "Hn">>>>]

\* the routes of the nested application, which Include(app=...).routes exposes
NestedRoutes ==
    <<Gateway(<<MiddlewareClass("Mn")>>, <<<<"K2", "Hn">>>>, <<MiddlewareClass("Mn")>>,
              <<<<"Exception", "Hn">>>>)>>

IncNested(type) == Include(NestedApp(type), <<MiddlewareClass("M3")>>, <<<<"K2", "hA">>>>, NestedRoutes)

RoutePool ==
    {GwPlain, GwM1, GwK1A, GwK1B, GwExc, IncGroup,
     IncNested("Esmerald"), IncNested("ChildEsmerald")}

RouteLists ==
    {<<>>} \cup {<<r>> : r \in RoutePool} \cup {<<r, t>> : r \in RoutePool, t \in RoutePool}

\* the gateways add_route is called with
AddRoutePool == {GwM1, GwK1A, GwExc}

\* the routers add_router is called with
RouterPool ==
    {[routes |-> <<GwM1>>, on_startup |-> <<"s1">>, on_shutdown |-> <<"d1">>],
     [routes |-> <<GwK1B, WsM1>>, on_startup |-> <<"s1">>, on_shutdown |-> <<>>],
     [routes |-> <<IncNested("Esmerald")>>, on_startup |-> <<"s1">>, on_shutdown |-> <<"d1">>],
     [routes |-> <<IncDeep>>, on_startup |-> <<>>, on_shutdown |-> <<>>]}

\* a settings object that sets nothing
BareSettings ==
    [debug |-> "False", title |-> None,
     allowed_hosts |-> NoneC, allow_origins |-> NoneC, permissions |-> NoneC,
     csrf_config |-> None, cors_config |-> None, openapi_config |-> None,
     static_files_config |-> NoConfig, session_config |-> None,
     enable_scheduler |-> "False", middleware |-> NoneC, exception_handlers |-> NoneC,
     on_startup |-> NoneC, on_shutdown |-> NoneC, lifespan |-> None,
     enable_openapi |-> "False"]

\* the settings a settings_config object carries
CustomSettings == [BareSettings EXCEPT !.title = "Custom", !.debug = "True"]

\* a constructor call that passes nothing
NoArgs ==
    [settings_config |-> None, debug |-> None, title |-> None,
     allowed_hosts |-> NoneC, allow_origins |-> NoneC, permissions |-> NoneC,
     csrf_config |-> None, cors_config |-> None, openapi_config |-> None,
     static_files_config |-> NoConfig, session_config |-> None,
     enable_scheduler |-> None, middleware |-> NoneC, exception_handlers |-> NoneC,
     on_startup |-> NoneC, on_shutdown |-> NoneC, lifespan |-> None,
     enable_openapi |-> None, routes |-> <<>>]

\* a constructor call, the settings in force, and whether the interpreter
\* keeps assert statements
Input(args, settings) ==
    [args |-> args, settings |-> settings, custom |-> CustomSettings, assertions |-> TRUE]

\* the built-in and OpenAPI configurations the route inputs are built with
BuiltinChoices ==
    {NoArgs,
     [NoArgs EXCEPT !.allowed_hosts = ListC(<<"example.com">>), !.cors_config = "cors",
                    !.csrf_config = "csrf", !.session_config = "session"],
     [NoArgs EXCEPT !.openapi_config = "openapi", !.enable_openapi = "True",
                    !.session_config = "session"]}

ExceptionHandlerChoices ==
    {NoneC,
     ListC(<<<<"K1", "hA">>>>),
     ListC(<<<<"500", "hC">>, <<"K2", "hB">>>>)}

\* constructor calls that vary the route tree
RouteInputs ==
    {Input([b EXCEPT !.routes = r, !.middleware = m, !.exception_handlers = e,
                     !.on_startup = s], BareSettings) :
        b \in BuiltinChoices, r \in RouteLists, m \in {NoneC, ListC(<<MiddlewareClass("M0")>>)},
        e \in ExceptionHandlerChoices, s \in {NoneC, ListC(<<"s0">>)}}

----------------------------------------------------------------------------
(* The state machine. *)

TypeOK ==
    /\ pc \in {"new", "built", "failed"}
    /\ err \in {"none", "ImproperlyConfigured", "AssertionError"}
    /\ op \in {"none", "__init__", "add_route", "add_websocket_route", "add_router",
               "build_user_middleware_stack", "user_middleware", "middleware_stack",
               "__call__", "return"}
    /\ rebuilds \in 0..(MaxRebuilds + 1)
    /\ request.scope \in {"none", "http", "lifespan"}
    /\ request.awaiting \in BOOLEAN

\* no request has been made
NoRequest == [scope |-> "none", awaiting |-> FALSE, stack |-> <<>>]

InitWith(inputs) ==
    /\ pc = "new"
    /\ err = "none"
    /\ op = "none"
    /\ inp \in inputs
    /\ self = Blank
    /\ rebuilds = 0
    /\ events = <<>>
    /\ request = NoRequest

Init == InitWith(RouteInputs)

\* Esmerald(**args)
Construct ==
    /\ pc = "new"
    /\ op' = "__init__"
    /\ err' = init_error(inp.args, inp.assertions)
    /\ IF init_error(inp.args, inp.assertions) # "none"
       THEN pc' = "failed" /\ self' = Blank
       ELSE pc' = "built" /\ self' = constructed(inp.args, inp.custom, inp.settings)
    /\ UNCHANGED <<inp, rebuilds, events, request>>

\* how many routes one add_route / add_router call adds to self.router
Added(n) == n + (IF openapi_active(self) THEN 1 ELSE 0)

\* app.add_route(path, handler, ...)
AddRoute ==
    /\ pc = "built"
    /\ \E gateway \in AddRoutePool, other_router \in BOOLEAN :
        /\ Len(self.routes) + Added(IF other_router THEN 0 ELSE 1) <= MaxRoutes
        /\ self' = add_route(self, gateway, other_router)
    /\ op' = "add_route"
    /\ UNCHANGED <<pc, err, inp, rebuilds, events, request>>

\* app.add_websocket_route(path, handler, ...)
AddWebsocketRoute ==
    /\ pc = "built"
    /\ \E other_router \in BOOLEAN :
        /\ Len(self.routes) + (IF other_router THEN 0 ELSE 1) <= MaxRoutes
        /\ self' = add_websocket_route(self, WsM1, other_router)
    /\ op' = "add_websocket_route"
    /\ UNCHANGED <<pc, err, inp, rebuilds, events, request>>

\* app.add_router(router)
AddRouter ==
    /\ pc = "built"
    /\ \E router \in RouterPool :
        /\ Len(self.routes) + Added(Len(router.routes)) <= MaxRoutes
        /\ self' = add_router(self, router)
    /\ op' = "add_router"
    /\ UNCHANGED <<pc, err, inp, rebuilds, events, request>>

\* app.build_user_middleware_stack(), its result not assigned: the call
\* still runs "self.middleware += handlers_middleware"
BuildUserMiddlewareStack ==
    /\ pc = "built"
    /\ rebuilds < MaxRebuilds
    /\ self' = [self EXCEPT !.middleware = build_user_middleware_stack(self).middleware]
    /\ rebuilds' = rebuilds + 1
    /\ op' = "build_user_middleware_stack"
    /\ UNCHANGED <<pc, err, inp, events, request>>

\* app.user_middleware = app.build_user_middleware_stack()
SetUserMiddleware ==
    /\ pc = "built"
    /\ rebuilds < MaxRebuilds
    /\ self' = set_user_middleware(self)
    /\ rebuilds' = rebuilds + 1
    /\ op' = "user_middleware"
    /\ UNCHANGED <<pc, err, inp, events, request>>

\* app.middleware_stack = app.build_middleware_stack()
SetMiddlewareStack ==
    /\ pc = "built"
    /\ rebuilds < MaxRebuilds
    /\ self' = set_middleware_stack(self)
    /\ rebuilds' = rebuilds + 1
    /\ op' = "middleware_stack"
    /\ UNCHANGED <<pc, err, inp, events, request>>

\* a caller running the stack builders after construction
Rebuild == BuildUserMiddlewareStack \/ SetUserMiddleware \/ SetMiddlewareStack

Next == Construct \/ AddRoute \/ AddWebsocketRoute \/ AddRouter

Spec == Init /\ [][Next]_vars

NextRebuild == Next \/ Rebuild

\* constructor calls of the applications the stack builders are run again on
RebuildInputs ==
    {i \in RouteInputs : i.args.on_startup = NoneC /\ i.args.middleware # NoneC}

InitRebuild == InitWith(RebuildInputs)

SpecRebuild == InitRebuild /\ [][NextRebuild]_vars

----------------------------------------------------------------------------
(* One request through the constructed chain.  The router's handler returns *)
(* or raises an error kind; control then returns outwards through the       *)
(* layers, each acting as the specification describes it.                   *)

Event(layer, what, handler) == [layer |-> layer, what |-> what, handler |-> handler]

\* what a layer does as control returns through it with the pending error
\* kind (None when there is none): [pending, log].  The resource-scope layer
\* releases on every exit.  The inner boundary is the catch-all: it answers a
\* kind without a specific handler, with the error handler it was built with,
\* if it was built with one.  The outer boundary answers a kind of the
\* per-kind map it was built with; what it does not answer is unhandled.
layer_exit(layer, pending, log) ==
    IF layer.cls = "AsyncExitStackMiddleware"
    THEN [pending |-> pending, log |-> Append(log, Event(layer.cls, "release", None))]
    ELSE IF layer.cls = "ExceptionMiddleware"
    THEN IF pending # None /\ ~DictHas(layer.handlers, pending)
            /\ layer.error_handler # None
         THEN [pending |-> None,
               log |-> Append(log, Event(layer.cls, "response", layer.error_handler))]
         ELSE [pending |-> pending, log |-> log]
    ELSE IF layer.cls = "EsmeraldAPIExceptionMiddleware"
    THEN IF pending = None THEN [pending |-> pending, log |-> log]
         ELSE IF DictHas(layer.handlers, pending)
         THEN [pending |-> None,
               log |-> Append(log, Event(layer.cls, "response",
                                         DictGet(layer.handlers, pending)))]
         ELSE [pending |-> pending, log |-> Append(log, Event(layer.cls, "unhandled", None))]
    ELSE [pending |-> pending, log |-> log]

\* control returning from layer i out to the outermost layer
RECURSIVE unwind(_, _, _, _)
unwind(stack, i, pending, log) ==
    IF i = 0 THEN log
    ELSE LET out == layer_exit(stack[i], pending, log) IN
         unwind(stack, i - 1, out.pending, out.log)

\* the events of one request whose handler raises the kind (None: returns)
dispatch(stack, raised) ==
    unwind(stack, Len(stack) - 1, raised,
           <<Event("Router", IF raised = None THEN "return" ELSE "raise", raised)>>)

\* the outcomes of a handler: a return, a kind with a typed handler
\* somewhere, a kind nobody registers
RaisedKinds == {None, "K2", "KX"}

\* the route lists of the applications the requests are dispatched on
DispatchRoutes == {<<GwM1, GwK1A>>}

\* constructor calls the requests are dispatched on
DispatchInputs ==
    {i \in RouteInputs : /\ i.args.on_startup = NoneC
                         /\ i.args.middleware # NoneC
                         /\ i.args.session_config = None
                         /\ i.args.exception_handlers.none
                              \/ DictHas(i.args.exception_handlers.items, "500")
                         /\ i.args.routes \in DispatchRoutes}

InitDispatch == InitWith(DispatchInputs)

\* app(scope, receive, send) with scope["type"] == "lifespan", up to
\* "await self.router.lifespan(...)": the chain is not entered
CallLifespan ==
    /\ pc = "built"
    /\ ~request.awaiting
    /\ request' = [scope |-> "lifespan", awaiting |-> TRUE, stack |-> <<>>]
    /\ events' = <<>>
    /\ op' = "__call__"
    /\ UNCHANGED <<pc, err, inp, self, rebuilds>>

\* app(scope, receive, send) for an http request, up to the point where the
\* router awaits the handler: "await super().__call__(...)" enters the chain
\* self.middleware_stack holds at that moment
CallHttp ==
    /\ pc = "built"
    /\ ~request.awaiting
    /\ request' = [scope |-> "http", awaiting |-> TRUE, stack |-> self.middleware_stack]
    /\ events' = <<>>
    /\ op' = "__call__"
    /\ UNCHANGED <<pc, err, inp, self, rebuilds>>

\* the awaited call finishes: router.lifespan returns, or the handler returns
\* or raises and control goes back out through the chain the request entered
Return ==
    /\ request.awaiting
    /\ request' = [request EXCEPT !.awaiting = FALSE]
    /\ IF request.scope = "lifespan"
       THEN events' = <<Event("Router", "lifespan", None)>>
       ELSE \E raised \in RaisedKinds : events' = dispatch(request.stack, raised)
    /\ op' = "return"
    /\ UNCHANGED <<pc, err, inp, self, rebuilds>>

\* Esmerald.__call__: its two branches and the return of what it awaits
Dispatch == CallLifespan \/ CallHttp \/ Return

NextDispatch == Next \/ Rebuild \/ Dispatch

SpecDispatch == InitDispatch /\ [][NextDispatch]_vars

----------------------------------------------------------------------------
(* Constructor calls that vary the configuration: every field against its  *)
(* settings default, the mutually exclusive options jointly.               *)

\* fields merged by one "explicit or default" on scalars
ScalarFields ==
    {"debug", "title", "csrf_config", "openapi_config",
     "session_config", "enable_scheduler", "enable_openapi"}

\* fields merged by one "explicit or default" on lists and dicts
PlainListFields == {"allowed_hosts", "exception_handlers", "static_files_config"}

\* fields merged by "(explicit or default) or []"
FallbackListFields == {"permissions", "middleware"}

ScalarExplicit == {None, "False", "", "explicit"}

ScalarDefault == {None, "False", "default"}

\* the entry a list or dict field holds when it is not empty
Entry(field, who) ==
    IF field = "exception_handlers" THEN <<"K1", who>>
    ELSE IF field = "middleware"
         THEN (IF who = "explicit" THEN StarletteMiddleware("M0", {"x"})
               ELSE MiddlewareClass("Md"))
    ELSE who

ListExplicit(field) ==
    IF field = "static_files_config"
    THEN {NoConfig, ConfigList(<<>>), OneConfig("static1"),
          ConfigList(<<"static1", "static2">>)}
    ELSE {NoneC, ListC(<<>>), ListC(<<Entry(field, "explicit")>>)}

ListDefault(field) ==
    IF field = "static_files_config"
    THEN {NoConfig, OneConfig("static_default")}
    ELSE {NoneC, ListC(<<>>), ListC(<<Entry(field, "default")>>)}

ConfigBase == [NoArgs EXCEPT !.routes = <<GwM1, GwK1A>>]

FieldInputs ==
    {Input([ConfigBase EXCEPT ![f] = e], [BareSettings EXCEPT ![f] = d]) :
        f \in ScalarFields, e \in ScalarExplicit, d \in ScalarDefault}
    \cup
    UNION {{Input([ConfigBase EXCEPT ![f] = e], [BareSettings EXCEPT ![f] = d]) :
               e \in ListExplicit(f), d \in ListDefault(f)} :
           f \in PlainListFields \cup FallbackListFields}

\* allow_origins against cors_config, lifespan against the hooks, and
\* settings_config, in every combination
ExclusiveInputs ==
    {[Input([ConfigBase EXCEPT !.settings_config = sc,
                               !.allow_origins = ao, !.cors_config = cc,
                               !.lifespan = ls, !.on_startup = su, !.on_shutdown = sd],
            [BareSettings EXCEPT !.allow_origins = dao, !.cors_config = dcc,
                                 !.lifespan = dls, !.on_startup = dsu])
         EXCEPT !.assertions = assertions] :
        assertions \in BOOLEAN,
        sc \in {None, "settings_instance", "settings_subclass", "other_class", "other"},
        ao \in {NoneC, ListC(<<>>), ListC(<<"https://a.example">>)},
        cc \in {None, "cors"},
        ls \in {None, "lifespan"},
        su \in {NoneC, ListC(<<>>), ListC(<<"s0">>)},
        sd \in {NoneC, ListC(<<"d0">>)},
        dao \in {NoneC, ListC(<<"*">>)},
        dcc \in {None, "cors_default"},
        dls \in {None, "lifespan_default"},
        dsu \in {NoneC, ListC(<<"sd">>)}}

ConfigInputs == FieldInputs \cup ExclusiveInputs

InitConfig == InitWith(ConfigInputs)

SpecConfig == InitConfig /\ [][Construct]_vars

----------------------------------------------------------------------------
(* How the constructed chain answers a raised error kind. *)

\* the per-kind map and the error handler the outer boundary was built with
boundary_handlers(stack) == stack[1].handlers

boundary_error_handler(stack) == stack[1].error_handler

\* the handler the chain resolves for a raised kind: the per-kind entry,
\* else the designated error handler, else None (unhandled)
lookup_handler(stack, kind) ==
    IF DictHas(boundary_handlers(stack), kind)
    THEN DictGet(boundary_handlers(stack), kind)
    ELSE boundary_error_handler(stack)

----------------------------------------------------------------------------
(* Definitions the properties are stated with. *)

\* the middleware list the constructor call declared, after the merge
DeclaredMiddleware ==
    app_config(inp.args,
               get_app_settings(settings_config_stored(inp.args.settings_config),
                                inp.custom, inp.settings)).middleware

\* the application a fresh build over the current route tree gives
FreshBuild == rebuild([self EXCEPT !.middleware = DeclaredMiddleware])

\* the registrations met on the way from a route node down to each handler
\* under it, outermost first; a nested application resolves its own errors
RECURSIVE RoutePaths(_)
RoutePaths(route) ==
    IF IsGateway(route)
    THEN {<<route.exception_handlers, route.handler.exception_handlers>>}
    ELSE IF route.app.type # "None"
         THEN {}
         ELSE {<<route.exception_handlers>> \o p :
                  p \in UNION {RoutePaths(route.routes[i]) : i \in 1..Len(route.routes)}}

\* the paths from the application level to every handler of the route tree
AppPaths ==
    {<<self.exception_handlers.items>> \o p :
        p \in UNION {RoutePaths(self.routes[i]) : i \in 1..Len(self.routes)}}

RegisteredOn(path, kind) == \E i \in 1..Len(path) : DictHas(path[i], kind)

\* the registration of kind deepest on the path
DeepestOn(path, kind) ==
    LET at == {i \in 1..Len(path) : DictHas(path[i], kind)}
        last == CHOOSE i \in at : \A j \in at : j <= i
    IN DictGet(path[last], kind)

ErrorKinds == {"K1", "K2", "500", "Exception", "ImproperlyConfigured"}

\* the final merged handler map: application level, then every route
MergedHandlers ==
    merge_routes_exception_handlers(self.routes, self.exception_handlers.items)

----------------------------------------------------------------------------
(* C1 -- C4 *)

\* C1: at every point after construction, also after add_route / add_router,
\* the user middleware list and the chain are those a fresh build over the
\* current route tree would give.
C1_StacksFollowRoutes ==
    pc = "built" =>
        /\ self.user_middleware = FreshBuild.user_middleware
        /\ self.middleware_stack = FreshBuild.middleware_stack

\* the steps that run a stack builder
BuilderOps == {"build_user_middleware_stack", "user_middleware", "middleware_stack"}

\* C2: running the stack builders again with no change to the routes gives the
\* same user middleware list as the run before.
C2_RebuildIdempotent ==
    [][(op \in {"__init__"} \cup BuilderOps /\ op' = "user_middleware")
          => self'.user_middleware = self.user_middleware]_vars

\* C3: after construction, for every handler of the route tree and every error
\* kind registered on the path to it, the chain resolves the kind to the
\* registration deepest on that path.
C3_DeepestOnPathWins ==
    (pc = "built" /\ op = "__init__") =>
        \A path \in AppPaths : \A kind \in ErrorKinds :
            RegisteredOn(path, kind) =>
                lookup_handler(self.middleware_stack, kind) = DeepestOn(path, kind)

\* C4: after construction, the per-kind map handed to the boundaries holds no
\* catch-all key, and every catch-all entry of the final merged map is the
\* designated error handler.
C4_CatchAllPartitioned ==
    (pc = "built" /\ op = "__init__") =>
        /\ DictKeys(boundary_handlers(self.middleware_stack)) \cap CatchAllKeys = {}
        /\ \A i \in 1..Len(MergedHandlers) :
              MergedHandlers[i][1] \in CatchAllKeys =>
                  boundary_error_handler(self.middleware_stack) = MergedHandlers[i][2]

----------------------------------------------------------------------------
(* C5 -- C7 *)

\* the route tree holds an Include whose app is an Esmerald or ChildEsmerald
HasNestedApp(routes) ==
    \E i \in 1..Len(routes) : IsInclude(routes[i]) /\ IsNestedApp(routes[i].app)

\* nothing a nested application declares inside itself is in the layer
LayerIsolated(layer) ==
    /\ layer.cls \notin NestedMiddleware
    /\ layer.error_handler \notin NestedHandlers
    /\ \A i \in 1..Len(layer.handlers) : layer.handlers[i][2] \notin NestedHandlers

\* C5: no middleware and no exception handler declared inside a nested
\* application is in the parent's user middleware list, its middleware list,
\* or any layer of its chain (the per-kind maps and the error handler).
C5_NestedAppIsolated ==
    pc = "built" =>
        /\ Range(Classes(self.user_middleware)) \cap NestedMiddleware = {}
        /\ Range(Classes(self.middleware.items)) \cap NestedMiddleware = {}
        /\ \A i \in 1..Len(self.middleware_stack) : LayerIsolated(self.middleware_stack[i])

\* a chain built over a tree with a nested application whose Include also
\* registers a handler of its own, which the parent does take
C5_Witness ==
    /\ pc = "built"
    /\ op = "__init__"
    /\ HasNestedApp(self.routes)
    /\ Len(self.routes) = 2
    /\ self.user_middleware # <<>>
    /\ DictGet(boundary_handlers(self.middleware_stack), "K2") = "hA"

\* the positions of the chain holding a layer of the class
LayersOf(stack, cls) == {i \in 1..Len(stack) : stack[i].cls = cls}

\* C6: the chain is the outer boundary, the N user middleware entries, the
\* inner boundary and the resource-scope layer around the router: N + 3 layers,
\* one boundary of each kind, every user entry between the two.
C6_ChainShape ==
    pc = "built" =>
        LET stack == self.middleware_stack
            n == Len(self.user_middleware)
        IN /\ Len(stack) = n + 3 + 1
           /\ stack[n + 4].cls = "Router"
           /\ LayersOf(stack, "EsmeraldAPIExceptionMiddleware") = {1}
           /\ LayersOf(stack, "ExceptionMiddleware") = {n + 2}
           /\ LayersOf(stack, "AsyncExitStackMiddleware") = {n + 3}
           /\ \A i \in 1..n : /\ stack[i + 1].cls = self.user_middleware[i].cls
                               /\ stack[i + 1].opts = self.user_middleware[i].options

\* a chain with several user middleware entries
C6_Witness ==
    /\ pc = "built"
    /\ Len(self.user_middleware) >= 3
    /\ Len(self.middleware_stack) = Len(self.user_middleware) + 4

\* the built-ins the merged configuration sets, in the fixed order
ConfiguredBuiltins ==
    SelectSeq(<<"TrustedHostMiddleware", "CORSMiddleware", "CSRFMiddleware",
                "SessionMiddleware">>,
              LAMBDA m :
                  \/ m = "TrustedHostMiddleware" /\ TruthyC(self.allowed_hosts)
                  \/ m = "CORSMiddleware" /\ TruthyS(self.cors_config)
                  \/ m = "CSRFMiddleware" /\ TruthyS(self.csrf_config)
                  \/ m = "SessionMiddleware" /\ TruthyS(self.session_config))

\* for each gateway among the routes, in order, its list then its handler's
RECURSIVE GatewayMiddleware(_)
GatewayMiddleware(routes) ==
    IF routes = <<>> THEN <<>>
    ELSE (IF IsGateway(routes[1])
          THEN routes[1].middleware \o routes[1].handler.middleware
          ELSE <<>>)
         \o GatewayMiddleware(Tail(routes))

\* C7: the user middleware list produced at construction is the configured
\* built-ins in the fixed order, then the declared middleware, then the
\* middleware of the gateways passed as routes, in declaration order.
C7_UserMiddlewareOrder ==
    (pc = "built" /\ op = "__init__") =>
        Classes(self.user_middleware) =
            ConfiguredBuiltins \o Classes(DeclaredMiddleware.items)
            \o Classes(GatewayMiddleware(inp.args.routes))

\* global [M0], route1 [M1] (its handler [M2]), route2 []: M0 before M1
C7_Witness ==
    /\ pc = "built"
    /\ op = "__init__"
    /\ inp.args.middleware = ListC(<<MiddlewareClass("M0")>>)
    /\ inp.args.routes = <<GwM1, GwPlain>>
    /\ Classes(self.user_middleware) =
           <<"TrustedHostMiddleware", "CORSMiddleware", "CSRFMiddleware",
             "SessionMiddleware", "M0", "M1", "M2">>

----------------------------------------------------------------------------
(* C8 -- C10 *)

AllScalarFields == ScalarFields \cup {"cors_config", "lifespan"}

AllListFields ==
    PlainListFields \cup FallbackListFields \cup {"allow_origins", "on_startup", "on_shutdown"}

\* the attribute of the application that holds the field
Stored(field) == IF field = "debug" THEN self._debug ELSE self[field]

\* the explicit argument when it is truthy, the settings default otherwise
ChosenS(field) ==
    IF TruthyS(inp.args[field]) THEN inp.args[field] ELSE inp.settings[field]

ChosenC(field) ==
    IF TruthyC(inp.args[field]) THEN inp.args[field] ELSE inp.settings[field]

\* C8 as stated: every field of the constructed application holds the explicit
\* argument when it is truthy and the settings default otherwise.
C8_ExplicitOrDefault ==
    (pc = "built" /\ op = "__init__") =>
        /\ \A f \in AllScalarFields : Stored(f) = ChosenS(f)
        /\ \A f \in AllListFields : Stored(f) = ChosenC(f)

\* the chosen value, or an empty collection when that is falsy
OrEmpty(c) == IF TruthyC(c) THEN c ELSE ListC(<<>>)

\* the two built-in handlers, added under the keys the dict lacks
WithDefaultHandlers(items) ==
    items
    \o (IF DictHas(items, "ImproperlyConfigured") THEN <<>>
        ELSE <<<<"ImproperlyConfigured", "improperly_configured_exception_handler">>>>)
    \o (IF DictHas(items, "ValidationErrorException") THEN <<>>
        ELSE <<<<"ValidationErrorException", "validation_error_exception_handler">>>>)

\* C8 as amended: explicit-when-truthy-else-default is what every field holds,
\* except that the fields merged with an empty fallback hold an empty
\* collection when both are falsy, exception_handlers holds a copy of the
\* chosen dict plus the two built-in handlers, and middleware holds the chosen
\* list followed by the middleware of the gateways passed as routes.
C8_ExplicitOrDefaultAmended ==
    (pc = "built" /\ op = "__init__") =>
        /\ \A f \in AllScalarFields : Stored(f) = ChosenS(f)
        /\ \A f \in AllListFields \ (FallbackListFields \cup {"exception_handlers"}) :
              Stored(f) = ChosenC(f)
        /\ self.permissions = OrEmpty(ChosenC("permissions"))
        /\ self.exception_handlers =
               ListC(WithDefaultHandlers(ChosenC("exception_handlers").items))
        /\ self.middleware =
               ListC(OrEmpty(ChosenC("middleware")).items
                     \o GatewayMiddleware(inp.args.routes))

\* a falsy explicit value that is not None, against a truthy default
C8_Witness ==
    /\ pc = "built"
    /\ op = "__init__"
    /\ inp.args.title = ""
    /\ inp.settings.title = "default"
    /\ self.title = "default"

\* C9: a constructor call with a non-empty allow_origins and a cors_config
\* raises ImproperlyConfigured, before the router exists or holds a route.
C9_OriginsAndCorsRejected ==
    (pc # "new" /\ TruthyC(inp.args.allow_origins) /\ TruthyS(inp.args.cors_config)) =>
        /\ pc = "failed"
        /\ err = "ImproperlyConfigured"
        /\ ~self.router_created
        /\ self.routes = <<>>

\* the application holds a lifespan callback and a startup or shutdown hook
HoldsLifespanAndHooks ==
    TruthyS(self.lifespan) /\ (TruthyC(self.on_startup) \/ TruthyC(self.on_shutdown))

\* C10: a constructor call with a lifespan callback and a startup or shutdown
\* hook raises ImproperlyConfigured, and no constructed application holds both
\* a lifespan callback and a startup or shutdown hook.
C10_LifespanOrHooks ==
    /\ (pc # "new" /\ TruthyS(inp.args.lifespan)
          /\ (TruthyC(inp.args.on_startup) \/ TruthyC(inp.args.on_shutdown)))
       => (pc = "failed" /\ err = "ImproperlyConfigured")
    /\ pc = "built" => ~HoldsLifespanAndHooks

----------------------------------------------------------------------------
(* C11 *)

\* the positions of the log holding an event of the kind
EventsOf(log, whats) == {i \in 1..Len(log) : log[i].what \in whats}

\* the last call was an http request and it has finished: events holds its log
HttpDone == request.scope = "http" /\ ~request.awaiting

\* C11: the resource-scope layer directly wraps the router, inside the inner
\* boundary; in every request, whether the handler returns, raises a kind with
\* a typed handler or raises an unhandled kind, the release is the first thing
\* after the handler's exit and comes before any boundary's response.
C11_ReleaseBeforeBoundaries ==
    pc = "built" =>
        LET stack == self.middleware_stack
            n == Len(stack)
        IN /\ stack[n].cls = "Router"
           /\ stack[n - 1].cls = "AsyncExitStackMiddleware"
           /\ stack[n - 2].cls = "ExceptionMiddleware"
           /\ HttpDone =>
                 /\ EventsOf(events, {"release"}) = {2}
                 /\ events[2].layer = "AsyncExitStackMiddleware"
                 /\ \A j \in EventsOf(events, {"response", "unhandled"}) : j > 2

\* a request whose error a boundary answered, after the release
C11_Witness ==
    /\ pc = "built"
    /\ HttpDone
    /\ Len(events) = 3
    /\ events[1].what = "raise"
    /\ events[2].what = "release"
    /\ events[3].what = "response"
    /\ events[3].handler = "hB"

----------------------------------------------------------------------------
(* C12 *)

\* the settings_config values the settings type accepts
ValidSettingsConfig == {"settings_instance", "settings_subclass"}

\* C12: a settings_config that is an instance or a subclass of the settings
\* type is accepted (the call fails only for another reason), the instance, or
\* an instance of the subclass, is stored, and the defaults come from it; any
\* other settings_config raises ImproperlyConfigured.
C12_SettingsConfigAccepted ==
    (pc # "new" /\ TruthyS(inp.args.settings_config)) =>
        IF inp.args.settings_config \in ValidSettingsConfig
        THEN (lifespan_assertion(inp.args) /\ ~origins_and_cors(inp.args)) =>
                 /\ pc = "built"
                 /\ self.settings_config = "settings_instance"
                 /\ self.title = inp.custom.title
        ELSE pc = "failed" /\ err = "ImproperlyConfigured"

----------------------------------------------------------------------------
(* C13 *)

\* the middleware a walk of the whole tree would collect: a group that is not
\* a nested application gives its own list and then what its children give
RECURSIVE TreeMiddleware(_)
TreeMiddleware(routes) ==
    IF routes = <<>> THEN <<>>
    ELSE (IF IsGateway(routes[1])
          THEN routes[1].middleware \o routes[1].handler.middleware
          ELSE IF IsInclude(routes[1]) /\ routes[1].app.type = "None"
               THEN routes[1].middleware \o TreeMiddleware(routes[1].routes)
               ELSE <<>>)
         \o TreeMiddleware(Tail(routes))

\* the groups among the constructor's routes that are not nested applications
PlainGroups ==
    {i \in 1..Len(inp.args.routes) :
        IsInclude(inp.args.routes[i]) /\ inp.args.routes[i].app.type = "None"}

\* the application as it stood before the user middleware was collected, with
\* the given routes
BeforeCollection(routes) == [self EXCEPT !.middleware = DeclaredMiddleware, !.routes = routes]

\* C13 (as stated): the user middleware list holds, after the built-ins and
\* the declared middleware, the middleware of the whole route tree: each
\* group's own entries and the entries of the gateways under it.
C13_GroupsContribute ==
    (pc = "built" /\ op = "__init__") =>
        Classes(self.user_middleware) =
            ConfiguredBuiltins \o Classes(DeclaredMiddleware.items)
            \o Classes(TreeMiddleware(inp.args.routes))

\* C13 (amended): a group contributes nothing to the parent's user middleware
\* list, nested application or not: the list is the one the application would
\* have collected with every group taken out of its routes.
C13_GroupsContributeNothing ==
    (pc = "built" /\ op = "__init__") =>
        self.user_middleware =
            build_user_middleware_stack(
                BeforeCollection(SelectSeq(inp.args.routes, IsGateway))).user_middleware

\* a group with its own middleware [M3] over a gateway with [M2], and neither
\* reached the user middleware list
C13_Witness ==
    /\ pc = "built"
    /\ op = "__init__"
    /\ \E i \in PlainGroups :
          /\ Classes(inp.args.routes[i].middleware) = <<"M3">>
          /\ Classes(TreeMiddleware(inp.args.routes[i].routes)) = <<"M2">>
    /\ Range(Classes(self.user_middleware)) \cap {"M2", "M3"} = {}

----------------------------------------------------------------------------
(* C14 *)

\* the outer boundary of a chain
OuterBoundary(stack) == stack[1]

\* the inner boundary of a chain: outside the resource-scope layer and the router
InnerBoundary(stack) == stack[Len(stack) - 2]

\* the positions of the application's handlers registered under a catch-all key
CatchAllEntries ==
    {i \in 1..Len(self.exception_handlers.items) :
        self.exception_handlers.items[i][1] \in CatchAllKeys}

\* the handler the application registers under Exception or 500 (the later
\* entry when it registers both), None when it registers neither
DesignatedErrorHandler ==
    IF CatchAllEntries = {} THEN None
    ELSE LET last == CHOOSE i \in CatchAllEntries : \A j \in CatchAllEntries : j <= i
         IN self.exception_handlers.items[last][2]

\* C14 (as stated): the outer boundary receives the per-kind map and the
\* inner catch-all boundary receives the designated error handler.
C14_InnerHoldsErrorHandler ==
    (pc = "built" /\ DesignatedErrorHandler # None) =>
        LET outer == OuterBoundary(self.middleware_stack)
            inner == InnerBoundary(self.middleware_stack)
        IN /\ "exception_handlers" \in outer.opts
           /\ "error_handler" \in inner.opts
           /\ inner.error_handler = DesignatedErrorHandler

\* C14 (amended): the outer boundary receives the per-kind map and the
\* designated error handler; the inner boundary receives the same per-kind map
\* and no error handler.
C14_OuterHoldsErrorHandler ==
    pc = "built" =>
        LET outer == OuterBoundary(self.middleware_stack)
            inner == InnerBoundary(self.middleware_stack)
        IN /\ outer.cls = "EsmeraldAPIExceptionMiddleware"
           /\ inner.cls = "ExceptionMiddleware"
           /\ outer.opts = {"exception_handlers", "error_handler", "debug"}
           /\ inner.opts = {"handlers", "debug"}
           /\ outer.error_handler = DesignatedErrorHandler
           /\ inner.error_handler = None
           /\ inner.handlers = outer.handlers

\* an application that registers hC under 500 and hB under K2: the outer
\* boundary holds hC, the inner boundary holds the map and no error handler
C14_Witness ==
    /\ pc = "built"
    /\ op = "__init__"
    /\ DictGet(self.exception_handlers.items, "500") = "hC"
    /\ OuterBoundary(self.middleware_stack).error_handler = "hC"
    /\ InnerBoundary(self.middleware_stack).error_handler = None
    /\ DictHas(InnerBoundary(self.middleware_stack).handlers, "K2")

----------------------------------------------------------------------------
(* C15 *)

\* how many times a hook occurs in a list
RECURSIVE Count(_, _)
Count(list, hook) ==
    IF list = <<>> THEN 0
    ELSE (IF list[1] = hook THEN 1 ELSE 0) + Count(Tail(list), hook)

\* every hook of the added list occurs in the new list once more than in the old
AddedOnce(old, new, added) ==
    \A hook \in Range(added) : Count(new.items, hook) = Count(old.items, hook) + 1

\* C15: add_router(r) adds every startup hook and every shutdown hook of r to
\* the application's hook lists exactly once, whatever routes r has and
\* whether or not the application had hooks before.
C15_HooksAddedOnce ==
    [][\A router \in RouterPool :
          (pc = "built" /\ op' = "add_router" /\ self' = add_router(self, router)) =>
              /\ AddedOnce(self.on_startup, self'.on_startup, router.on_startup)
              /\ AddedOnce(self.on_shutdown, self'.on_shutdown, router.on_shutdown)]_vars

====
